---- MODULE Spec2Model ----
(***************************************************************************)
(* yellowball: a Mega Millions ticket checker (src/yellowball/yellowball.py) *)
(*                                                                         *)
(* Python values are records [k, v]: k is the Python type ("none", "int",  *)
(* "numstr" for a string that is an integer literal, "str" for a string    *)
(* that is none, "iso" for a string that is an ISO date), v the integer or *)
(* the day number.  Dates are day numbers.  A dict is a sequence of its    *)
(* items in insertion order.                                               *)
(***************************************************************************)
EXTENDS Integers, Sequences, FiniteSets, TLC

VARIABLES
    pc,          \* position of the run
    args,        \* the parsed command line (argparse namespace)
    vin,         \* the arguments of a direct call of validate
    cw,          \* the arguments and the result of a call of _calc_winnings
    file,        \* the ticket file on disk
    apidata,     \* the JSON array the results API answers with
    network,     \* "up" | "down": whether requests.get succeeds
    smtp,        \* "up" | "down": whether the SMTP relay accepts the mail
    ticketdata,  \* the result of validate / parse_file
    raised,      \* the uncaught exception that ended the run, "" when none
    status,      \* the exit status once pc = "exit"
    stdout,      \* what was printed, one tag per print call
    requests,    \* HTTP requests made
    mails,       \* mails sent
    reads,       \* ticket files read
    validations, \* calls of validate
    winners,     \* check: the dict winners, in insertion order
    remaining,   \* check: remaining draws
    idx,         \* check: position of the loop over winners
    totalvalue,  \* check: running total
    hitjackpot,  \* check: jackpot flag
    result,      \* check: the local variable result
    output,      \* check: the report, one entry per line
    selected,    \* history: the drawing dates _get_winners returned
    evaluated    \* history: the drawing dates the loop of check evaluated

vars == << pc, args, vin, cw, file, apidata, network, smtp, ticketdata, raised,
           status, stdout, requests, mails, reads, validations, winners,
           remaining, idx, totalvalue, hitjackpot, result, output, selected,
           evaluated >>

----------------------------------------------------------------------------
(* Bounds of the model *)

MaxMegaplier == 5
MaxDay == 3
MaxItems == 3
PoolEdge == 4

(* Program constants *)

NumberLimit == 70
MegaballLimit == 26
TicketNumbers == 5
Threshold == 999
QuickPickStop == 70
MegaballStop == 26

----------------------------------------------------------------------------
(* Python values *)

None == [k |-> "none", v |-> 0]
IntV(n) == [k |-> "int", v |-> n]
StrV == [k |-> "str", v |-> 0]
NumStr(n) == [k |-> "numstr", v |-> n]
IsoV(d) == [k |-> "iso", v |-> d]

\* A comma separated string, as the sequence of the tokens between the commas
\* (<< >> is the empty string), or None.
Csv(tokens) == [k |-> "csv", tokens |-> tokens]
NoCsv == [k |-> "none", tokens |-> << >>]

\* int(x): TypeError for None, ValueError for a string that is no integer
\* literal, the integer otherwise.
PyInt(x) ==
    CASE x.k \in {"int", "numstr"} -> [exc |-> "", val |-> x.v]
      [] x.k = "none" -> [exc |-> "TypeError", val |-> 0]
      [] OTHER -> [exc |-> "ValueError", val |-> 0]

\* datetime.fromisoformat(str(x)): ValueError unless the string is an ISO date.
FromIsoFormat(x) ==
    IF x.k = "iso" THEN [exc |-> "", val |-> x.v]
    ELSE [exc |-> "ValueError", val |-> 0]

\* Truth value of an int, a str or None.
Truthy(x) ==
    CASE x.k = "none" -> FALSE
      [] x.k = "int" -> x.v # 0
      [] OTHER -> TRUE

Min(a, b) == IF a < b THEN a ELSE b
Max(a, b) == IF a > b THEN a ELSE b

RECURSIVE Insert(_, _)
Insert(x, s) ==
    IF s = << >> THEN << x >>
    ELSE IF x <= Head(s) THEN << x >> \o s
    ELSE << Head(s) >> \o Insert(x, Tail(s))

\* sorted(list of int)
RECURSIVE Sorted(_)
Sorted(s) == IF s = << >> THEN << >> ELSE Insert(Head(s), Sorted(Tail(s)))

\* seq[0:n], Python's slice: a negative n counts from the end.
Slice0(s, n) ==
    IF n >= 0 THEN SubSeq(s, 1, Min(n, Len(s)))
    ELSE SubSeq(s, 1, Max(Len(s) + n, 0))

----------------------------------------------------------------------------
(* Ticket.validate *)

NoTicket ==
    [valid |-> FALSE, numbers |-> << >>, megaball |-> 0, draws |-> 0,
     purchased |-> 0, megaplier |-> FALSE]

\* The loop over the tokens of numbers.split(','): the state is
\* [exc, valid_numbers]; a ValueError of int() is not caught and ends it.
RECURSIVE ValidNumbers(_, _)
ValidNumbers(tokens, acc) ==
    IF tokens = << >> THEN [exc |-> "", nums |-> acc, invalid |-> FALSE]
    ELSE LET n == PyInt(Head(tokens)) IN
         CASE n.exc = "ValueError" -> [exc |-> "ValueError", nums |-> acc, invalid |-> FALSE]
           [] n.exc = "TypeError" ->
                LET rest == ValidNumbers(Tail(tokens), acc) IN
                [rest EXCEPT !.invalid = TRUE]
           [] OTHER ->
                IF n.val < NumberLimit
                THEN ValidNumbers(Tail(tokens), Append(acc, n.val))
                ELSE ValidNumbers(Tail(tokens), acc)

\* "white ball numbers"
ValidateNumbers(numbers) ==
    IF numbers.k = "csv" /\ numbers.tokens # << >>
    THEN LET r == ValidNumbers(numbers.tokens, << >>) IN
         [exc |-> r.exc, nums |-> r.nums,
          invalid |-> r.invalid \/ Len(r.nums) # TicketNumbers]
    ELSE [exc |-> "", nums |-> << >>, invalid |-> TRUE]

\* "megaball": only a TypeError invalidates; a value below 26 is converted,
\* any other is kept as it was given (megaball is an int or None here).
ValidateMegaball(megaball) ==
    LET n == PyInt(megaball) IN
    CASE n.exc = "ValueError" -> [exc |-> "ValueError", val |-> 0, invalid |-> FALSE]
      [] n.exc = "TypeError" -> [exc |-> "", val |-> 0, invalid |-> TRUE]
      [] OTHER ->
            [exc |-> "",
             val |-> IF n.val < MegaballLimit THEN n.val ELSE megaball.v,
             invalid |-> FALSE]

\* "draws": a falsy value (None, 0) becomes 1.
ValidateDraws(draws) ==
    IF Truthy(draws)
    THEN LET n == PyInt(draws) IN
         CASE n.exc = "ValueError" -> [exc |-> "ValueError", val |-> 0, invalid |-> FALSE]
           [] n.exc = "TypeError" -> [exc |-> "", val |-> 0, invalid |-> TRUE]
           [] OTHER -> [exc |-> "", val |-> n.val, invalid |-> FALSE]
    ELSE [exc |-> "", val |-> 1, invalid |-> FALSE]

\* "purchased"
ValidatePurchased(purchased) ==
    LET d == FromIsoFormat(purchased) IN
    [exc |-> "", val |-> d.val, invalid |-> d.exc # ""]

\* validate(numbers, megaball, draws, purchased, megaplier):
\* [exc, ticket]; ticket is NoTicket for None.
validate(numbers, megaball, draws, purchased, megaplier) ==
    LET n == ValidateNumbers(numbers)
        m == ValidateMegaball(megaball)
        d == ValidateDraws(draws)
        p == ValidatePurchased(purchased)
    IN  CASE n.exc # "" -> [exc |-> n.exc, ticket |-> NoTicket]
          [] m.exc # "" -> [exc |-> m.exc, ticket |-> NoTicket]
          [] d.exc # "" -> [exc |-> d.exc, ticket |-> NoTicket]
          [] n.invalid \/ m.invalid \/ d.invalid \/ p.invalid ->
                [exc |-> "", ticket |-> NoTicket]
          [] OTHER ->
                [exc |-> "",
                 ticket |-> [valid |-> TRUE, numbers |-> Sorted(n.nums),
                             megaball |-> m.val, draws |-> d.val,
                             purchased |-> p.val, megaplier |-> megaplier]]

----------------------------------------------------------------------------
(* Ticket._calc_winnings *)

_calc_winnings_2mb_as_1mb(matched, megaball, megaplier) ==
    IF megaball
    THEN CASE matched = 4 -> 10000 * megaplier
           [] matched = 3 -> 200 * megaplier
           [] matched = 2 -> 4 * megaplier
           [] matched = 1 -> 4 * megaplier
           [] OTHER -> 2 * megaplier
    ELSE CASE matched = 5 -> 1000000 * megaplier
           [] matched = 4 -> 500 * megaplier
           [] matched = 3 -> 10 * megaplier
           [] OTHER -> 0

_calc_winnings(matched, megaball, megaplier) ==
    IF megaball
    THEN CASE matched = 4 -> 10000 * megaplier
           [] matched = 3 -> 200 * megaplier
           [] matched = 2 -> 10 * megaplier
           [] matched = 1 -> 4 * megaplier
           [] OTHER -> 2 * megaplier
    ELSE CASE matched = 5 -> 1000000 * megaplier
           [] matched = 4 -> 500 * megaplier
           [] matched = 3 -> 10 * megaplier
           [] OTHER -> 0

----------------------------------------------------------------------------
(* Ticket._get_winners *)

RECURSIVE SortSet(_)
SortSet(S) ==
    IF S = {} THEN << >>
    ELSE LET m == CHOOSE x \in S : \A y \in S : x <= y
         IN  << m >> \o SortSet(S \ {m})

\* The loop over the items of the answer: results is the dict drawdate ->
\* result, a later item of the same date replacing an earlier one.
RECURSIVE ParseResults(_, _, _)
ParseResults(data, ticketdate, results) ==
    IF data = << >> THEN results
    ELSE LET item == Head(data)
             keep == /\ Truthy(item.multiplier)
                     /\ item.winning_numbers # << >>
                     /\ item.draw_date >= ticketdate
             res == [date |-> item.draw_date,
                     balls |-> item.winning_numbers,
                     mball |-> PyInt(item.mega_ball).val,
                     mmult |-> PyInt(item.multiplier).val]
         IN  IF keep
             THEN ParseResults(Tail(data), ticketdate,
                               (item.draw_date :> res) @@ results)
             ELSE ParseResults(Tail(data), ticketdate, results)

\* covered = sorted(results.keys())[0:draws]
Covered(results, draws) == Slice0(SortSet(DOMAIN results), draws)

\* winners, in insertion order
_get_winners(ticketdate, draws, data) ==
    LET results == ParseResults(data, ticketdate, << >>)
        covered == Covered(results, draws)
    IN  [i \in 1..Len(covered) |-> results[covered[i]]]

----------------------------------------------------------------------------
(* Ticket.check *)

Unbound ==
    [kind |-> "unbound", date |-> 0, matched |-> 0, mb |-> FALSE, mm |-> 0,
     amount |-> 0]

\* "if self.last_only": every key but the last one is deleted.
LastOnlyFirst(w) == IF Len(w) > 1 THEN << w[1] >> ELSE w

LastOnly(w) == IF Len(w) > 1 THEN << w[Len(w)] >> ELSE w

SeqSet(s) == {s[i] : i \in 1..Len(s)}

\* "for number in numbers: if number in drawing: matched += 1"
Matched(numbers, drawing) ==
    Cardinality({i \in 1..Len(numbers) : numbers[i] \in SeqSet(drawing)})

\* "if matched == 5 and got_mb"
IsJackpotNever(matched, got_mb) == FALSE

IsJackpot(matched, got_mb) == matched = 5 /\ got_mb

\* "elif matched < 3 and not got_mb"
IsLoser(matched, got_mb) == matched < 3 /\ ~got_mb

\* "if megaplier: got_mm = mmult, else: got_mm = 1"
GotMmAlways(megaplier, mmult) == mmult

GotMm(megaplier, mmult) == IF megaplier THEN mmult ELSE 1

\* One pass of the loop over winners, for the drawing w: whether the drawing
\* is evaluated at all, the new value of result, the jackpot flag, the amount
\* added to totalvalue, and the exception of the line "output += ..." when
\* result was never assigned.
EvalDrawing(td, w, winners_only, prev) ==
    LET truthy == /\ Len(w.balls) = 5
                  /\ \A i \in 1..Len(w.balls) : w.balls[i] # 0
                  /\ w.mball # 0
                  /\ w.mmult # 0
        matched == Matched(td.numbers, w.balls)
        got_mb == td.megaball = w.mball
        got_mm == GotMm(td.megaplier, w.mmult)
        amount == _calc_winnings(matched, got_mb, got_mm)
        branch == CASE IsJackpot(matched, got_mb) -> "jackpot"
                    [] ~IsJackpot(matched, got_mb) /\ IsLoser(matched, got_mb) -> "loser"
                    [] OTHER -> "won"
        res ==
            CASE branch = "jackpot" ->
                    [kind |-> "jackpot", date |-> w.date, matched |-> 5,
                     mb |-> TRUE, mm |-> 0, amount |-> 0]
              [] branch = "loser" ->
                    IF ~winners_only
                    THEN [kind |-> "loser", date |-> 0, matched |-> 0,
                          mb |-> FALSE, mm |-> 0, amount |-> 0]
                    ELSE prev
              [] OTHER ->
                    [kind |-> "won", date |-> 0, matched |-> matched,
                     mb |-> got_mb,
                     mm |-> IF td.megaplier THEN w.mmult ELSE 0,
                     amount |-> amount]
    IN  IF ~truthy
        THEN [evaluated |-> FALSE, result |-> prev, jackpot |-> FALSE,
              add |-> 0, exc |-> ""]
        ELSE [evaluated |-> TRUE,
              result |-> res,
              jackpot |-> branch = "jackpot",
              add |-> IF branch = "won" THEN amount ELSE 0,
              exc |-> IF res.kind = "unbound" THEN "UnboundLocalError" ELSE ""]

\* The category of the "Total ticket value" line.
TotalLine(jackpot, total) ==
    [kind |-> "total",
     tag |-> CASE jackpot /\ total > 0 -> "jackpot+"
               [] jackpot /\ ~(total > 0) -> "jackpot"
               [] ~jackpot /\ total > Threshold -> "high"
               [] ~jackpot /\ ~(total > Threshold) /\ total > 0 -> "low"
               [] OTHER -> "zero",
     total |-> total]

----------------------------------------------------------------------------
(* Ticket.parse_file *)

NoKey == [k |-> "nokey", v |-> 0]
NoKeyCsv == [k |-> "nokey", tokens |-> << >>]
BoolStr(b) == [k |-> "boolstr", v |-> IF b THEN 1 ELSE 0]

\* config.get / getint / getboolean of one key of the section: NoOptionError
\* when the key is missing, ValueError when the conversion fails.
GetOption(value, kind) ==
    CASE value.k = "nokey" -> "NoOptionError"
      [] value.k # "nokey" /\ kind = "int" /\ value.k # "numstr" -> "ValueError"
      [] value.k # "nokey" /\ kind = "bool" /\ value.k # "boolstr" -> "ValueError"
      [] OTHER -> ""

\* parse_file(ticketfile) on the file f: [outcome, exc, ticket, read, validated]
parse_file(f) ==
    LET e1 == GetOption(f.numbers, "str")
        e2 == GetOption(f.megaball, "int")
        e3 == GetOption(f.megaplier, "bool")
        e4 == GetOption(f.draws, "int")
        e5 == GetOption(f.purchased, "str")
        exc == CASE e1 # "" -> e1
                 [] e1 = "" /\ e2 # "" -> e2
                 [] e1 = "" /\ e2 = "" /\ e3 # "" -> e3
                 [] e1 = "" /\ e2 = "" /\ e3 = "" /\ e4 # "" -> e4
                 [] OTHER -> e5
        v == validate(Csv(f.numbers.tokens), IntV(f.megaball.v),
                      IntV(f.draws.v), f.purchased, f.megaplier.v = 1)
    IN  CASE ~f.exists ->
                [outcome |-> "notfound", exc |-> "", ticket |-> NoTicket,
                 read |-> FALSE, validated |-> FALSE]
          [] f.exists /\ ~f.parses ->
                [outcome |-> "invalid", exc |-> "", ticket |-> NoTicket,
                 read |-> TRUE, validated |-> FALSE]
          [] f.exists /\ f.parses /\ ~f.section ->
                [outcome |-> "invalid", exc |-> "", ticket |-> NoTicket,
                 read |-> TRUE, validated |-> FALSE]
          [] f.exists /\ f.parses /\ f.section /\ exc # "" ->
                [outcome |-> "raised", exc |-> exc, ticket |-> NoTicket,
                 read |-> TRUE, validated |-> FALSE]
          [] OTHER ->
                [outcome |-> CASE v.exc # "" -> "raised"
                               [] v.exc = "" /\ ~v.ticket.valid -> "invalid"
                               [] OTHER -> "ok",
                 exc |-> v.exc, ticket |-> v.ticket,
                 read |-> TRUE, validated |-> TRUE]

----------------------------------------------------------------------------
(* main *)

Msg(tag) == [tag |-> tag, numbers |-> << >>, megaball |-> 0]

\* "if args.send_mail and not (args.mail_to and args.mail_from)"
MailParamsMissingBoth(a) ==
    a.send_mail /\ ~(Truthy(a.mail_to) \/ Truthy(a.mail_from))

MailParamsMissing(a) ==
    a.send_mail /\ ~(Truthy(a.mail_to) /\ Truthy(a.mail_from))

\* Where main goes from its arguments.
MainBranch(a) ==
    CASE a.version -> "version"
      [] ~a.version /\ MailParamsMissing(a) -> "mailerror"
      [] ~a.version /\ ~MailParamsMissing(a) /\ a.quick_pick -> "quick_pick"
      [] ~a.version /\ ~MailParamsMissing(a) /\ ~a.quick_pick
            /\ Truthy(a.ticketfile) -> "parse_file"
      [] ~a.version /\ ~MailParamsMissing(a) /\ ~a.quick_pick
            /\ ~Truthy(a.ticketfile)
            /\ a.numbers.k = "csv" /\ a.numbers.tokens # << >>
            /\ Truthy(a.megaball) /\ Truthy(a.purchased) -> "validate"
      [] OTHER -> "help"

----------------------------------------------------------------------------
(* Actions *)

Exit(code) == /\ pc' = "exit" /\ status' = code

\* main, from its start to the call it dispatches to
Main ==
    /\ pc = "main"
    /\ LET b == MainBranch(args) IN
       /\ pc' = IF b \in {"version", "mailerror", "help"} THEN "exit" ELSE b
       /\ status' = IF b = "mailerror" THEN 1 ELSE 0
       /\ stdout' = IF b \in {"version", "mailerror", "help"}
                    THEN Append(stdout, Msg(b)) ELSE stdout
    /\ UNCHANGED << args, vin, cw, file, apidata, network, smtp, ticketdata,
                    raised, requests, mails, reads, validations, winners,
                    remaining, idx, totalvalue, hitjackpot, result, output,
                    selected, evaluated >>

\* range(start, stop)
Range(start, stop) == start..(stop - 1)

\* The values the random generator returns in the model: the PoolEdge lowest
\* and the PoolEdge highest of the population.
Drawn(population) ==
    { x \in population :
        \/ Cardinality({ y \in population : y < x }) < PoolEdge
        \/ Cardinality({ y \in population : y > x }) < PoolEdge }

SamplePool == Drawn(Range(1, QuickPickStop))
MegaballPool == Drawn(Range(1, MegaballStop))

\* random.choices(population, k=k): k values, with replacement
RandomChoices(population, k) == [1..k -> population]

\* random.sample(population, k): k values of the population, without
\* replacement, in the order they were drawn
RandomSample(population, k) ==
    { s \in [1..k -> population] : \A i, j \in 1..k : i # j => s[i] # s[j] }

\* ticket.quick_pick(), then the end of main
QuickPick ==
    /\ pc = "quick_pick"
    /\ \E sample \in RandomSample(SamplePool, 5), rand_mb \in MegaballPool :
          stdout' = Append(stdout, [tag |-> "quickpick",
                                    numbers |-> Sorted(sample),
                                    megaball |-> rand_mb])
    /\ Exit(0)
    /\ UNCHANGED << args, vin, cw, file, apidata, network, smtp, ticketdata,
                    raised, requests, mails, reads, validations, winners,
                    remaining, idx, totalvalue, hitjackpot, result, output,
                    selected, evaluated >>

\* ticket.parse_file(args.ticketfile)
ParseFile ==
    /\ pc = "parse_file"
    /\ LET r == parse_file(file) IN
       /\ reads' = IF r.read THEN reads + 1 ELSE reads
       /\ validations' = IF r.validated THEN validations + 1 ELSE validations
       /\ ticketdata' = r.ticket
       /\ raised' = r.exc
       /\ pc' = IF r.outcome = "ok" THEN "check" ELSE "exit"
       /\ status' = IF r.outcome = "ok" THEN 0 ELSE 1
       /\ stdout' = CASE r.outcome = "notfound" -> Append(stdout, Msg("filenotfound"))
                      [] r.outcome = "invalid" -> Append(stdout, Msg("invalidfile"))
                      [] OTHER -> stdout
    /\ UNCHANGED << args, vin, cw, file, apidata, network, smtp, requests,
                    mails, winners, remaining, idx, totalvalue, hitjackpot,
                    result, output, selected, evaluated >>

\* main: ticket.validate(...) of the direct-entry flags, and what follows it
ValidateArgs ==
    /\ pc = "validate"
    /\ LET r == validate(args.numbers, args.megaball, args.draws,
                         args.purchased, args.megaplier) IN
       /\ validations' = validations + 1
       /\ ticketdata' = r.ticket
       /\ raised' = r.exc
       /\ pc' = IF r.exc = "" /\ r.ticket.valid THEN "check" ELSE "exit"
       /\ status' = IF r.exc # "" THEN 1 ELSE 0
       /\ stdout' = IF r.exc = "" /\ ~r.ticket.valid
                    THEN Append(stdout, Msg("help")) ELSE stdout
    /\ UNCHANGED << args, vin, cw, file, apidata, network, smtp, requests,
                    mails, reads, winners, remaining, idx, totalvalue,
                    hitjackpot, result, output, selected, evaluated >>

\* check: the call of _get_winners, remaining, and the head of the report
CheckFetch ==
    /\ pc = "check"
    /\ requests' = requests + 1
    /\ IF network = "down"
       THEN /\ stdout' = Append(stdout, Msg("neterror"))
            /\ Exit(1)
            /\ UNCHANGED << winners, remaining, output, selected >>
       ELSE LET w == _get_winners(ticketdata.purchased, ticketdata.draws, apidata) IN
            /\ winners' = w
            /\ selected' = [i \in 1..Len(w) |-> w[i].date]
            /\ remaining' = ticketdata.draws - Len(w)
            /\ output' = << [kind |-> "ticket", remaining |-> ticketdata.draws - Len(w)] >>
            /\ pc' = "last_only"
            /\ UNCHANGED << stdout, status >>
    /\ UNCHANGED << args, vin, cw, file, apidata, network, smtp, ticketdata,
                    raised, mails, reads, validations, idx, totalvalue,
                    hitjackpot, result, evaluated >>

\* check: "if self.last_only"
CheckLastOnly ==
    /\ pc = "last_only"
    /\ winners' = IF args.last_only THEN LastOnly(winners) ELSE winners
    /\ idx' = 1
    /\ pc' = "loop"
    /\ UNCHANGED << args, vin, cw, file, apidata, network, smtp, ticketdata,
                    raised, status, stdout, requests, mails, reads,
                    validations, remaining, totalvalue, hitjackpot, result,
                    output, selected, evaluated >>

\* check: one pass of "for drawdate in winners"
CheckDrawing ==
    /\ pc = "loop"
    /\ idx <= Len(winners)
    /\ LET w == winners[idx]
           r == EvalDrawing(ticketdata, w, args.winners_only, result)
       IN  /\ evaluated' = IF r.evaluated THEN Append(evaluated, w.date) ELSE evaluated
           /\ totalvalue' = totalvalue + r.add
           /\ hitjackpot' = (hitjackpot \/ r.jackpot)
           /\ result' = r.result
           /\ raised' = r.exc
           /\ pc' = IF r.exc # "" THEN "exit" ELSE "loop"
           /\ status' = IF r.exc # "" THEN 1 ELSE status
           /\ idx' = IF r.exc # "" THEN idx ELSE idx + 1
           /\ output' = IF r.evaluated /\ r.exc = ""
                        THEN Append(output, [kind |-> "drawing", date |-> w.date,
                                             balls |-> w.balls, mball |-> w.mball,
                                             result |-> r.result])
                        ELSE output
    /\ UNCHANGED << args, vin, cw, file, apidata, network, smtp, ticketdata,
                    stdout, requests, mails, reads, validations, winners,
                    remaining, selected >>

\* check: after the loop, the total line and the delivery of the report
CheckSummary ==
    /\ pc = "loop"
    /\ idx > Len(winners)
    /\ output' = (IF Len(winners) = 0
                  THEN Append(output, [kind |-> "noresults"]) ELSE output)
                 \o << TotalLine(hitjackpot, totalvalue) >>
    /\ mails' = IF args.send_mail /\ smtp = "up" THEN mails + 1 ELSE mails
    /\ raised' = IF args.send_mail /\ smtp = "down" THEN "SMTPException" ELSE ""
    /\ stdout' = IF args.send_mail THEN stdout ELSE Append(stdout, Msg("report"))
    /\ pc' = "exit"
    /\ status' = IF args.send_mail /\ smtp = "down" THEN 1 ELSE 0
    /\ UNCHANGED << args, vin, cw, file, apidata, network, smtp, ticketdata,
                    requests, reads, validations, winners, remaining, idx,
                    totalvalue, hitjackpot, result, selected, evaluated >>

\* a call of Ticket.validate with the arguments vin
ValidateCall ==
    /\ pc = "validate_call"
    /\ LET r == validate(vin.numbers, vin.megaball, vin.draws, vin.purchased,
                         vin.megaplier) IN
       /\ ticketdata' = r.ticket
       /\ raised' = r.exc
    /\ validations' = validations + 1
    /\ pc' = "returned"
    /\ UNCHANGED << args, vin, cw, file, apidata, network, smtp, status,
                    stdout, requests, mails, reads, winners, remaining, idx,
                    totalvalue, hitjackpot, result, output, selected,
                    evaluated >>

\* a call of Ticket._calc_winnings with the arguments cw
CalcCall ==
    /\ pc = "calc_call"
    /\ cw' = [cw EXCEPT !.winnings =
                 _calc_winnings(cw.matched, cw.megaball, cw.megaplier)]
    /\ pc' = "calculated"
    /\ UNCHANGED << args, vin, file, apidata, network, smtp, ticketdata,
                    raised, status, stdout, requests, mails, reads,
                    validations, winners, remaining, idx, totalvalue,
                    hitjackpot, result, output, selected, evaluated >>

----------------------------------------------------------------------------
(* Inputs *)

NoArgs ==
    [version |-> FALSE, send_mail |-> FALSE, mail_to |-> None,
     mail_from |-> None, quick_pick |-> FALSE, ticketfile |-> None,
     numbers |-> NoCsv, megaball |-> None, draws |-> None, purchased |-> None,
     megaplier |-> FALSE, last_only |-> FALSE, winners_only |-> FALSE]

NoFile ==
    [exists |-> FALSE, parses |-> FALSE, section |-> FALSE,
     numbers |-> NoKeyCsv, megaball |-> NoKey, megaplier |-> NoKey,
     draws |-> NoKey, purchased |-> NoKey]

NoVin ==
    [numbers |-> NoCsv, megaball |-> None, draws |-> None, purchased |-> None,
     megaplier |-> FALSE]

NoCw == [matched |-> 0, megaball |-> FALSE, megaplier |-> 1, winnings |-> 0]

Days == 1..MaxDay

\* The numbers "5,4,3,2,1" of the ticket the drawings below are made for;
\* its megaball is 7.
GoodNumbers == Csv(<< NumStr(5), NumStr(4), NumStr(3), NumStr(2), NumStr(1) >>)

\* What a drawing can hold: a jackpot for the ticket (at two multipliers),
\* 4 numbers and the megaball, the megaball alone, 2 numbers and no megaball,
\* and a row without multiplier.
DrawContents ==
    { [winning_numbers |-> << 1, 2, 3, 4, 5 >>, mega_ball |-> NumStr(7),
       multiplier |-> NumStr(2)],
      [winning_numbers |-> << 5, 4, 3, 2, 1 >>, mega_ball |-> NumStr(7),
       multiplier |-> NumStr(5)],
      [winning_numbers |-> << 1, 2, 3, 4, 69 >>, mega_ball |-> NumStr(7),
       multiplier |-> NumStr(3)],
      [winning_numbers |-> << 60, 61, 62, 63, 64 >>, mega_ball |-> NumStr(7),
       multiplier |-> NumStr(4)],
      [winning_numbers |-> << 1, 2, 30, 40, 50 >>, mega_ball |-> NumStr(9),
       multiplier |-> NumStr(2)],
      [winning_numbers |-> << 1, 2, 3, 40, 50 >>, mega_ball |-> NumStr(7),
       multiplier |-> None] }

ApiItems ==
    { [draw_date |-> d, winning_numbers |-> c.winning_numbers,
       mega_ball |-> c.mega_ball, multiplier |-> c.multiplier] :
      d \in Days, c \in DrawContents }

\* The answers of the API: at most MaxItems rows, in any order, one per date.
ApiResponses ==
    UNION { { s \in [1..n -> ApiItems] :
                \A i, j \in 1..n : i # j => s[i].draw_date # s[j].draw_date } :
            n \in 0..MaxItems }

CheckInit ==
    /\ winners = << >>
    /\ remaining = 0
    /\ idx = 0
    /\ totalvalue = 0
    /\ hitjackpot = FALSE
    /\ result = Unbound
    /\ output = << >>
    /\ selected = << >>
    /\ evaluated = << >>

CountersInit ==
    /\ raised = ""
    /\ status = 0
    /\ stdout = << >>
    /\ requests = 0
    /\ mails = 0
    /\ reads = 0
    /\ validations = 0

----------------------------------------------------------------------------
(* Calls of validate *)

NumberTokens == { StrV, NumStr(0), NumStr(1), NumStr(69), NumStr(70) }

ValidateInputs ==
    [numbers : {NoCsv} \cup { Csv(t) : t \in [1..4 -> NumberTokens] \cup [1..5 -> NumberTokens] },
     megaball : { None, StrV, IntV(0), IntV(25), IntV(26) },
     draws : { None, StrV, IntV(-1), IntV(0), IntV(2) },
     purchased : { StrV, IsoV(1) },
     megaplier : BOOLEAN]

InitValidate ==
    /\ pc = "validate_call"
    /\ vin \in ValidateInputs
    /\ args = NoArgs
    /\ cw = NoCw
    /\ file = NoFile
    /\ apidata = << >>
    /\ network = "up"
    /\ smtp = "up"
    /\ ticketdata = NoTicket
    /\ CountersInit
    /\ CheckInit

NextValidate == ValidateCall

SpecValidate == InitValidate /\ [][NextValidate]_vars

----------------------------------------------------------------------------
(* Calls of _calc_winnings *)

InitCalc ==
    /\ pc = "calc_call"
    /\ cw \in [matched : 0..5, megaball : BOOLEAN, megaplier : 1..MaxMegaplier,
               winnings : {0}]
    /\ args = NoArgs
    /\ vin = NoVin
    /\ file = NoFile
    /\ apidata = << >>
    /\ network = "up"
    /\ smtp = "up"
    /\ ticketdata = NoTicket
    /\ CountersInit
    /\ CheckInit

NextCalc == CalcCall

SpecCalc == InitCalc /\ [][NextCalc]_vars

----------------------------------------------------------------------------
(* check, on a ticket validate returned *)

\* The tickets: "5,4,3,2,1" with megaball 7, bought on day 2, with -d absent,
\* -1 or 2, with and without the megaplier.
CheckTickets ==
    { validate(GoodNumbers, IntV(7), d, IsoV(2), x).ticket :
        d \in { None, IntV(-1), IntV(2) }, x \in BOOLEAN }

InitCheck ==
    /\ pc = "check"
    /\ ticketdata \in CheckTickets
    /\ args \in { [NoArgs EXCEPT !.last_only = l, !.winners_only = w] :
                    l \in BOOLEAN, w \in BOOLEAN }
    /\ apidata \in ApiResponses
    /\ network \in { "up", "down" }
    /\ network = "down" => apidata = << >>
    /\ smtp = "up"
    /\ vin = NoVin
    /\ cw = NoCw
    /\ file = NoFile
    /\ CountersInit
    /\ CheckInit

NextCheck == CheckFetch \/ CheckLastOnly \/ CheckDrawing \/ CheckSummary

SpecCheck == InitCheck /\ [][NextCheck]_vars

----------------------------------------------------------------------------
(* A run of main *)

GoodFile ==
    [exists |-> TRUE, parses |-> TRUE, section |-> TRUE,
     numbers |-> GoodNumbers, megaball |-> NumStr(7),
     megaplier |-> BoolStr(TRUE), draws |-> NumStr(2), purchased |-> IsoV(1)]

\* The ticket files: none, an unparsable one, one without the section, one
\* per missing or malformed key, and a good one.
Files ==
    { NoFile,
      [GoodFile EXCEPT !.parses = FALSE],
      [GoodFile EXCEPT !.section = FALSE],
      [GoodFile EXCEPT !.numbers = NoKeyCsv],
      [GoodFile EXCEPT !.numbers = Csv(<< NumStr(1), NumStr(2), NumStr(3) >>)],
      [GoodFile EXCEPT !.numbers = Csv(<< NumStr(1), NumStr(2), NumStr(3), NumStr(4), StrV >>)],
      [GoodFile EXCEPT !.megaball = StrV],
      [GoodFile EXCEPT !.megaball = NoKey],
      [GoodFile EXCEPT !.draws = NoKey],
      [GoodFile EXCEPT !.purchased = StrV],
      GoodFile }

\* The direct-entry flags: -p and -d are of type int.
DirectEntries ==
    [numbers : { NoCsv, GoodNumbers,
                 Csv(<< NumStr(1), NumStr(2), NumStr(3) >>),
                 Csv(<< NumStr(1), NumStr(2), NumStr(3), NumStr(4), StrV >>) },
     megaball : { None, IntV(7), IntV(30) },
     draws : { None, IntV(2) },
     purchased : { None, StrV, IsoV(1) }]

MainArgs ==
    { [version |-> v, send_mail |-> m, mail_to |-> to, mail_from |-> from,
       quick_pick |-> q, ticketfile |-> tf,
       numbers |-> e.numbers, megaball |-> e.megaball, draws |-> e.draws,
       purchased |-> e.purchased, megaplier |-> FALSE,
       last_only |-> FALSE, winners_only |-> FALSE] :
      v \in BOOLEAN, m \in BOOLEAN, to \in { None, StrV }, from \in { None, StrV },
      q \in BOOLEAN, tf \in { None, StrV }, e \in DirectEntries }

\* What the API answers in a run of main: nothing yet, or one drawing.
MainResponses ==
    { s \in ApiResponses : Len(s) <= 1 /\ \A i \in 1..Len(s) : s[i].draw_date = 1 }

Init ==
    /\ pc = "main"
    /\ args \in MainArgs
    /\ file \in Files
    /\ IF Truthy(args.ticketfile)
       THEN /\ args.numbers = NoCsv /\ args.megaball = None
            /\ args.draws = None /\ args.purchased = None
       ELSE file = NoFile
    /\ apidata \in MainResponses
    /\ network \in { "up", "down" }
    /\ smtp \in { "up", "down" }
    /\ args.quick_pick =>
          /\ ~Truthy(args.ticketfile) /\ args.numbers = NoCsv
          /\ args.megaball = None /\ args.draws = None /\ args.purchased = None
          /\ apidata = << >> /\ network = "up" /\ smtp = "up"
    /\ vin = NoVin
    /\ cw = NoCw
    /\ ticketdata = NoTicket
    /\ CountersInit
    /\ CheckInit

Next ==
    \/ Main
    \/ QuickPick
    \/ ParseFile
    \/ ValidateArgs
    \/ CheckFetch
    \/ CheckLastOnly
    \/ CheckDrawing
    \/ CheckSummary

Spec == Init /\ [][Next]_vars

----------------------------------------------------------------------------
(* Properties of validate *)

\* C1: every ticket validate returns has exactly 5 numbers, each in [1,69],
\* sorted ascending, and a megaball in [1,25].
C1_ReturnedTicketInRange ==
    (pc = "returned" /\ raised = "" /\ ticketdata.valid) =>
        /\ Len(ticketdata.numbers) = 5
        /\ \A i \in 1..Len(ticketdata.numbers) : ticketdata.numbers[i] \in 1..69
        /\ \A i \in 1..(Len(ticketdata.numbers) - 1) :
              ticketdata.numbers[i] <= ticketdata.numbers[i + 1]
        /\ ticketdata.megaball \in 1..25

\* A field of the arguments of validate is malformed: a numbers token that is
\* not an integer below 70, a count of numbers other than 5, a megaball that
\* is not an integer below 26, a draws value that is not an integer, or a
\* purchase date that is not an ISO date.
Malformed(v) ==
    \/ v.numbers.k # "csv"
    \/ Len(v.numbers.tokens) # 5
    \/ \E i \in 1..Len(v.numbers.tokens) :
          \/ v.numbers.tokens[i].k # "numstr"
          \/ v.numbers.tokens[i].v >= 70
    \/ v.megaball.k # "int"
    \/ v.megaball.v >= 26
    \/ v.draws.k = "str"
    \/ v.purchased.k # "iso"

\* C2: validate returns None, and raises nothing, whenever a field is
\* malformed.
C2_MalformedGivesNone ==
    (pc = "returned" /\ Malformed(vin)) => (raised = "" /\ ~ticketdata.valid)

----------------------------------------------------------------------------
(* Properties of _calc_winnings *)

\* The payout table of the specification, without the jackpot.
BasePayout(matched, megaball) ==
    CASE matched = 5 /\ ~megaball -> 1000000
      [] matched = 4 /\ megaball -> 10000
      [] matched = 4 /\ ~megaball -> 500
      [] matched = 3 /\ megaball -> 200
      [] matched = 3 /\ ~megaball -> 10
      [] matched = 2 /\ megaball -> 10
      [] matched = 1 /\ megaball -> 4
      [] matched = 0 /\ megaball -> 2
      [] OTHER -> 0

\* C3: but for the jackpot case (5, true), _calc_winnings(matched, megaball, m)
\* is the base payout of the table times m; (4,true,3) gives 30000, (3,false,2)
\* gives 20, (2,true,1) gives 10 and (0,false,m) gives 0.
C3_PayoutTable ==
    pc = "calculated" =>
        /\ ~(cw.matched = 5 /\ cw.megaball) =>
              cw.winnings = BasePayout(cw.matched, cw.megaball) * cw.megaplier
        /\ (cw.matched = 4 /\ cw.megaball /\ cw.megaplier = 3) => cw.winnings = 30000
        /\ (cw.matched = 3 /\ ~cw.megaball /\ cw.megaplier = 2) => cw.winnings = 20
        /\ (cw.matched = 2 /\ cw.megaball /\ cw.megaplier = 1) => cw.winnings = 10
        /\ (cw.matched = 0 /\ ~cw.megaball) => cw.winnings = 0

C3_Witness ==
    /\ pc = "calculated"
    /\ cw.matched = 4 /\ cw.megaball /\ cw.megaplier = 3
    /\ cw.winnings = 30000

----------------------------------------------------------------------------
(* Properties of check *)

\* The loop of check is over: it ran to its end or an exception ended it.
LoopOver ==
    \/ pc = "loop" /\ idx > Len(winners)
    \/ pc = "exit" /\ requests > 0 /\ network = "up"

DrawingLines == { i \in 1..Len(output) : output[i].kind = "drawing" }

\* The ticket holds the 5 numbers of the drawing and its megaball.
MatchesAll(td, w) ==
    /\ SeqSet(w.balls) \subseteq SeqSet(td.numbers)
    /\ td.megaball = w.mball

\* C4: a drawing where the ticket matches all 5 numbers and the megaball is
\* classified as jackpot, whatever the multiplier and the megaplier option,
\* and adds nothing to the running total.
C4_JackpotAddsNothing ==
    [][ ( /\ pc = "loop"
          /\ idx <= Len(winners)
          /\ MatchesAll(ticketdata, winners[idx]) )
        => ( /\ hitjackpot'
             /\ totalvalue' = totalvalue
             /\ result'.kind = "jackpot"
             /\ Len(output') = Len(output) + 1
             /\ output'[Len(output')].date = winners[idx].date
             /\ output'[Len(output')].result.kind = "jackpot" ) ]_vars

C4_Witness ==
    /\ LoopOver
    /\ hitjackpot
    /\ ticketdata.megaplier
    /\ totalvalue = 30000
    /\ \E i \in DrawingLines :
          output[i].result.kind = "jackpot" /\ output[i].date = 3

\* The drawing of a report line is a non-winner for the ticket: fewer than 3
\* numbers matched and no megaball match.
NonWinner(td, line) ==
    /\ Cardinality(SeqSet(td.numbers) \cap SeqSet(line.balls)) < 3
    /\ td.megaball # line.mball

\* C5: in winners-only mode the report has no line for a non-winner, and no
\* run of check fails for one (stated for the tickets with a positive number
\* of draws, where the selection of the drawings is the intended one).
C5_WinnersOnlyNoLoserLine ==
    (args.winners_only /\ ticketdata.draws >= 1) =>
        /\ raised # "UnboundLocalError"
        /\ \A i \in DrawingLines : ~NonWinner(ticketdata, output[i])

\* The dates of the complete rows of the answer at or after the purchase date.
EligibleDates ==
    { apidata[i].draw_date : i \in
        { j \in 1..Len(apidata) :
            /\ apidata[j].multiplier.k # "none"
            /\ apidata[j].winning_numbers # << >>
            /\ apidata[j].draw_date >= ticketdata.purchased } }

\* The chronologically first n of the eligible dates.
FirstDates(n) ==
    { d \in EligibleDates : Cardinality({ e \in EligibleDates : e < d }) < n }

Fetched == pc # "check" /\ network = "up"

\* C7: the drawings check selects are exactly the chronologically first
\* ticket.draws results at or after the purchase date, and without last-only
\* mode these are the drawings it evaluates.
C7_SelectsFirstDraws ==
    /\ Fetched => SeqSet(selected) = FirstDates(ticketdata.draws)
    /\ (Fetched /\ LoopOver /\ ~args.last_only /\ raised = "") =>
          SeqSet(evaluated) = FirstDates(ticketdata.draws)

\* C8: remaining is never negative, and is zero when all requested draws have
\* results.
C8_RemainingNotNegative ==
    Fetched =>
        /\ remaining >= 0
        /\ Cardinality(EligibleDates) >= ticketdata.draws => remaining = 0

MaxDate(s) == CHOOSE d \in SeqSet(s) : \A e \in SeqSet(s) : e <= d

\* C10: in last-only mode check evaluates exactly one drawing when at least
\* one was selected, the latest-dated of the selected ones, and none when none
\* was selected.
C10_LastOnlyEvaluatesLatest ==
    (args.last_only /\ LoopOver) =>
        evaluated = IF selected = << >> THEN << >> ELSE << MaxDate(selected) >>

C10_Witness ==
    /\ args.last_only
    /\ LoopOver
    /\ Len(selected) >= 2
    /\ evaluated = << MaxDate(selected) >>

----------------------------------------------------------------------------
(* Properties of main *)

\* The run got to the ticket and the ticket is an input error.
FileError ==
    /\ MainBranch(args) = "parse_file"
    /\ \/ ~file.exists
       \/ ~file.section
       \/ file.numbers.k = "nokey"
       \/ parse_file(file).outcome # "ok"

EntryError ==
    /\ MainBranch(args) = "validate"
    /\ LET r == validate(args.numbers, args.megaball, args.draws,
                         args.purchased, args.megaplier)
       IN  r.exc # "" \/ ~r.ticket.valid

Printed(tag) == \E i \in 1..Len(stdout) : stdout[i].tag = tag

\* C6: every input error ends the run with exit status 1 and without a
\* network request; a ticket file without the numbers key with the "invalid
\* ticket file" message.
C6_InputErrorsExitOne ==
    (pc = "exit" /\ (FileError \/ EntryError)) =>
        /\ status = 1
        /\ requests = 0
        /\ (FileError /\ file.exists /\ file.parses /\ file.section
              /\ file.numbers.k = "nokey") => Printed("invalidfile")

\* Mail is requested without both a sender and a recipient address.
MailWithoutAddresses ==
    args.send_mail /\ (args.mail_to.k = "none" \/ args.mail_from.k = "none")

NothingDone ==
    /\ validations = 0
    /\ reads = 0
    /\ requests = 0
    /\ mails = 0
    /\ pc \in { "main", "exit" }
    /\ pc = "exit" => status = 1

\* C9 as stated: mail requested without both addresses ends the run with
\* exit status 1 before any validation, file read, request or mail.
C9_MailErrorFirst == MailWithoutAddresses => NothingDone

\* C9: the same, when the version is not asked for (a version query is
\* answered first, with exit status 0).
C9_MailErrorFirstUnlessVersion ==
    (MailWithoutAddresses /\ ~args.version) => NothingDone

C9_Witness ==
    /\ pc = "exit"
    /\ status = 1
    /\ args.send_mail /\ args.mail_to.k # "none" /\ args.mail_from.k = "none"
    /\ ~args.version
    /\ args.numbers = GoodNumbers /\ Truthy(args.megaball) /\ Truthy(args.purchased)
    /\ Printed("mailerror")

----------------------------------------------------------------------------
(* Calls of quick_pick *)

InitQuickPick ==
    /\ pc = "quick_pick"
    /\ args = [NoArgs EXCEPT !.quick_pick = TRUE]
    /\ vin = NoVin
    /\ cw = NoCw
    /\ file = NoFile
    /\ apidata = << >>
    /\ network = "up"
    /\ smtp = "up"
    /\ ticketdata = NoTicket
    /\ CountersInit
    /\ CheckInit

NextQuickPick == QuickPick

SpecQuickPick == InitQuickPick /\ [][NextQuickPick]_vars

\* C11: quick_pick always emits exactly 5 pairwise distinct numbers in [1,69],
\* in ascending order, and exactly one megaball in [1,25].
C11_QuickPickValid ==
    /\ Cardinality({ i \in 1..Len(stdout) : stdout[i].tag = "quickpick" })
          = IF pc = "exit" THEN 1 ELSE 0
    /\ \A i \in 1..Len(stdout) :
          stdout[i].tag = "quickpick" =>
              /\ Len(stdout[i].numbers) = 5
              /\ \A j \in 1..5 : stdout[i].numbers[j] \in 1..69
              /\ \A j \in 1..4 : stdout[i].numbers[j] < stdout[i].numbers[j + 1]
              /\ stdout[i].megaball \in 1..25

C11_Witness ==
    /\ pc = "exit"
    /\ Len(stdout) = 1
    /\ stdout[1].tag = "quickpick"
    /\ stdout[1].numbers[1] = 1
    /\ stdout[1].numbers[5] = 69
    /\ stdout[1].megaball = 25

----------------------------------------------------------------------------
(* The total of check *)

\* The row of the answer for the date d (the answer has one row per date).
RowOf(d) == CHOOSE r \in SeqSet(apidata) : r.draw_date = d

NumbersHit(td, row) ==
    Cardinality(SeqSet(td.numbers) \cap SeqSet(row.winning_numbers))

MegaballHit(td, row) == td.megaball = row.mega_ball.v

\* jackpot / non-winner / winner, as the specification classifies a drawing
ClassOf(td, row) ==
    CASE NumbersHit(td, row) = 5 /\ MegaballHit(td, row) -> "jackpot"
      [] NumbersHit(td, row) < 3 /\ ~MegaballHit(td, row) -> "non-winner"
      [] OTHER -> "winner"

\* What a drawing adds to the total: the payout at the drawing's own
\* multiplier if the ticket opted into megaplier, at 1 otherwise.
Contribution(td, row) ==
    IF ClassOf(td, row) = "winner"
    THEN _calc_winnings(NumbersHit(td, row), MegaballHit(td, row),
                        IF td.megaplier THEN row.multiplier.v ELSE 1)
    ELSE 0

RECURSIVE SumContributions(_, _)
SumContributions(td, dates) ==
    IF dates = << >> THEN 0
    ELSE Contribution(td, RowOf(Head(dates))) + SumContributions(td, Tail(dates))

\* C12: after check has processed the evaluated drawings, the total is the sum
\* of _calc_winnings over the drawings that are neither jackpot nor
\* non-winner, at the drawing's multiplier if the ticket has the megaplier and
\* at 1 otherwise; every winner contributes more than 0.
C12_TotalIsSumOfWinners ==
    /\ (LoopOver /\ raised = "") =>
          totalvalue = SumContributions(ticketdata, evaluated)
    /\ \A i \in 1..Len(evaluated) :
          ClassOf(ticketdata, RowOf(evaluated[i])) = "winner" =>
              Contribution(ticketdata, RowOf(evaluated[i])) > 0
    /\ \A i \in DrawingLines :
          output[i].result.kind = "won" => output[i].result.amount > 0

C12_Witness ==
    /\ pc = "exit"
    /\ raised = ""
    /\ ticketdata.megaplier
    /\ Len(evaluated) = 2
    /\ totalvalue = 30008

====
